---- MODULE Spec2Model ----
(***************************************************************************)
(* Model of the timer engine of Programming-Scripts/Timer/ultratimer.py    *)
(* (class UltraTimer): the fields is_running, start_time, duration,        *)
(* elapsed, remaining, the periodic update_display loop, the operations    *)
(* toggle_timer, reset_timer, set_duration, switch_mode, and the remote    *)
(* control thread.                                                         *)
(*                                                                         *)
(* Time is in seconds, as in the source (time.time()).  The wall clock is  *)
(* sampled on a grid of Quantum seconds; it may advance by any number of   *)
(* grid steps between two operations, so a periodic update may or may not  *)
(* sample an exact value of remaining.                                     *)
(***************************************************************************)
EXTENDS Integers, Sequences, FiniteSets, TLC

(* ------------------------------ bounds -------------------------------- *)
Quantum == 60            \* grid of the wall-clock samples, in seconds
MaxSteps == 5            \* the clock runs up to MaxSteps * Quantum seconds
MaxPending == 2          \* scheduled update_display calls are counted 0, 1, ..., "MaxPending or more"
MaxEffects == 4          \* cap on the length of the side-effect log of a run

MaxNow == MaxSteps * Quantum

(* ------------------------- program constants -------------------------- *)
DefaultDuration == 300   \* self.duration = 300
PomodoroDuration == 1500 \* start_pomodoro: self.duration = 1500
CriticalTime == 60       \* if self.remaining <= 60
WarningTime == 120       \* elif self.remaining <= 120

Modes == {"clock", "timer", "countdown", "stopwatch", "pomodoro"}
CountModes == {"timer", "countdown", "pomodoro"}
SwitchModes == {"clock", "timer", "stopwatch", "pomodoro"}  \* the mode buttons pressed here
QuickTimes == {60, 300}  \* durations offered by the quick buttons / key bindings

Phases == {"Stopped", "Running", "Paused", "Finished"}

VARIABLES
    (* fields of UltraTimer *)
    mode,            \* self.mode
    is_running,      \* self.is_running
    start_time,      \* self.start_time
    duration,        \* self.duration
    elapsed,         \* self.elapsed
    remaining,       \* self.remaining
    sound_enabled,   \* self.sound_enabled: "unset" until open_settings creates it as "on"
    stats,           \* self.stats
    pending,         \* number of update_display callbacks scheduled with root.after
                     \* (the value MaxPending stands for "MaxPending or more")
    now,             \* the wall clock read by time.time()
    (* history variables, not fields of the program *)
    phase,           \* Stopped / Running / Paused / Finished
    anchor,          \* instant of the latest start or resume
    accumulated,     \* time run in earlier run segments since the last reset
    effects,         \* side effects dispatched since the latest start
    startedFrom,     \* phase in which the latest start was issued
    disturbed,       \* set_duration was issued since the latest start from rest
    last,            \* "tick": the latest step was a scheduled update_display;
                     \* "ticked": only the clock has moved since; "op": otherwise
    anchored,        \* start_time was written by the start that set is_running
    (* the two threads of execution *)
    pc,              \* the statement each thread is at
    loc,             \* the local values of each thread's operation
    (* what is outside the engine *)
    request,         \* the path of the HTTP request a remote client has sent, or "none"
    response,        \* what the client has received for it
    time_display,    \* the fields of the text of self.time_display
    (* the presets, the theme and the files in the home directory *)
    presets,         \* self.presets: name -> TimerPreset
    current_theme,   \* self.current_theme
    presets_file,    \* the file ~/.ultratimer_presets.json
    stats_file,      \* the file ~/.ultratimer_stats.json
    disk,            \* "ok", or "full": a write stops part-way with an OSError
    previous,        \* history: the side effects of the run the latest reset ended
    (* the environment managers venv_setup.py and conda_setup.py *)
    script,          \* the script being imported: "venv", "conda", or "none"
    config_file,     \* the file CONFIG_FILE of that script
    config,          \* the module's global config, once load_config() has returned
    outcome          \* "unloaded", or how config = load_config() ended

vars == <<mode, is_running, start_time, duration, elapsed, remaining,
          sound_enabled, stats, stats_file, pending, now,
          phase, anchor, accumulated, effects, startedFrom, disturbed,
          last, anchored, pc, loc, request, response, time_display,
          presets, current_theme, presets_file, disk, previous,
          script, config_file, config, outcome>>

(* the configuration of the environment managers *)
cfg == <<script, config_file, config, outcome>>

(* the history of the user-interface thread's operations *)
hist == <<phase, anchor, accumulated, effects, startedFrom, disturbed, last>>

(* the position and locals of the threads *)
threads == <<pc, loc>>

(* the remote client, the label of the display, the presets and the disk *)
outside == <<request, response, time_display,
             presets, current_theme, presets_file, disk, cfg>>

io == <<outside, previous>>

(* the timer is a program of its own: no environment manager is imported *)
NoConfig ==
    /\ script = "none"
    /\ config_file = [kind |-> "absent", doc |-> [k \in {} |-> 0]]
    /\ config = [k \in {} |-> 0]
    /\ outcome = "unloaded"

Threads == {"ui", "srv"}
NoLocals == [op |-> "none", el |-> 0, arg |-> 0, cont |-> "idle"]
NoResponse == [status |-> "none", applied |-> "none", body |-> <<>>]

(* ------------------------- the persisted files ------------------------ *)

(* A dict, and a JSON object, is a function from its keys: {} has no key.   *)
Empty == [k \in {} |-> 0]

(* A file does not exist, or holds a JSON document, or holds the beginning  *)
(* of one: open(..., 'w') has emptied it and the write did not finish.      *)
Absent == [kind |-> "absent", doc |-> Empty]
Truncated == [kind |-> "truncated", doc |-> Empty]
Document(d) == [kind |-> "document", doc |-> d]

(* json.dump / json.load of a dict of numbers, lines 582 and 588 *)
StatsObject(d) == [k \in DOMAIN d |-> d[k]]

(* the write of a document: "with open(file, 'w') as f: json.dump(..., f)"  *)
WriteRaises == disk = "full"
Written(d) == IF WriteRaises THEN Truncated ELSE Document(d)

Max(a, b) == IF a >= b THEN a ELSE b

(* The engine fields (and the history fields an operation maintains) as a   *)
(* record, so that an operation that calls another one can be composed.     *)
Cur ==
    [mode |-> mode, is_running |-> is_running, start_time |-> start_time,
     duration |-> duration, elapsed |-> elapsed, remaining |-> remaining,
     sound_enabled |-> sound_enabled, stats |-> stats,
     stats_file |-> stats_file, pending |-> pending,
     phase |-> phase, anchor |-> anchor, accumulated |-> accumulated,
     effects |-> effects]

Store(s) ==
    /\ mode' = s.mode
    /\ is_running' = s.is_running
    /\ start_time' = s.start_time
    /\ duration' = s.duration
    /\ elapsed' = s.elapsed
    /\ remaining' = s.remaining
    /\ sound_enabled' = s.sound_enabled
    /\ stats' = s.stats
    /\ stats_file' = s.stats_file
    /\ pending' = s.pending
    /\ phase' = s.phase
    /\ anchor' = s.anchor
    /\ accumulated' = s.accumulated
    /\ effects' = s.effects

Log(s, e) ==
    [s EXCEPT !.effects = IF Len(@) < MaxEffects THEN Append(@, e) ELSE @]


(* ----------------------- update_display (the tick) -------------------- *)

(* line 332: elapsed = time.time() - self.start_time *)
ElapsedAt(s, t) == t - s.start_time

(* line 333: self.remaining = max(0, self.duration - elapsed) *)
RemainingAt(s, t) == Max(0, s.duration - ElapsedAt(s, t))

(* lines 323, 331 without their "if self.is_running" *)
RecomputesAlways(s) == TRUE

(* lines 323, 331: the recomputation is made only "if self.is_running" *)
Recomputes(s) == s.is_running

(* lines 340-347: the sound requested for a freshly computed remaining.     *)
(* The tests are equalities inside the <= branches.                        *)
ThresholdSound(r) ==
    IF r <= CriticalTime
    THEN (IF r = CriticalTime THEN "critical" ELSE "none")
    ELSE IF r <= WarningTime
         THEN (IF r = WarningTime THEN "warning" ELSE "none")
         ELSE "none"

(* line 352: if self.remaining == 0 *)
IsFinished(r) == r = 0

(* play_sound, line 493: self.sound_enabled.get() raises AttributeError     *)
(* when open_settings has never created the attribute.                     *)
PlaySoundRaises(s) == s.sound_enabled = "unset"

(* line 353 with the anchor cleared as well *)
StopSelfClearsAnchor(s, t) ==
    [s EXCEPT !.is_running = FALSE,
              !.start_time = 0,
              !.phase = "Finished",
              !.accumulated = @ + (t - s.anchor)]

(* lines 353-357: the engine stops itself and counts the completion *)
StopSelf(s, t) ==
    [s EXCEPT !.is_running = FALSE,
              !.phase = "Finished",
              !.accumulated = @ + (t - s.anchor)]

CountCompletion(s) ==
    [s EXCEPT !.stats = [@ EXCEPT !.completed_timers = @ + 1]]

(* line 356 on a dict that has no key "completed_timers": KeyError *)
CountRaises(s) == "completed_timers" \notin DOMAIN s.stats

(* line 357 left out: the statistics are counted but not written *)
SaveStatsSkipped(s) == s

(* save_stats, lines 579-582 *)
SaveStats(s) == [s EXCEPT !.stats_file = Written(StatsObject(s.stats))]

(* line 369: self.root.after(100, self.update_display) *)
Schedule(s) == [s EXCEPT !.pending = IF @ < MaxPending THEN @ + 1 ELSE @]

(* the event loop takes one scheduled callback off its queue *)
Taken(p) == IF p < MaxPending THEN {p - 1} ELSE {MaxPending - 1, MaxPending}

Returned(s) == [st |-> Schedule(s), raised |-> FALSE]
Raised(s) == [st |-> s, raised |-> TRUE]

(* The count-based branch of update_display, lines 330-357, for a running   *)
(* timer.  An exception leaves the assignments made so far and skips the    *)
(* rest of the function, line 369 included.                                *)
CountBranch(s, t) ==
    LET r == RemainingAt(s, t)
        s1 == [s EXCEPT !.remaining = r]
        kind == ThresholdSound(r)
        s2 == IF kind = "none" THEN s1 ELSE Log(s1, kind)
    IN  IF s.duration = 0 THEN Raised(s1)             \* line 336 divides by duration
        ELSE IF kind /= "none" /\ PlaySoundRaises(s) THEN Raised(s2)
        ELSE IF IsFinished(r)
             THEN LET s3 == Log(StopSelf(s2, t), "finish")
                  IN  IF PlaySoundRaises(s) THEN Raised(s3)
                      ELSE LET s4 == Log(s3, "notify")
                               s5 == SaveStats(CountCompletion(s4))
                           IN  IF CountRaises(s4) THEN Raised(s4)
                               ELSE IF WriteRaises THEN Raised(s5)
                               ELSE Returned(s5)
             ELSE Returned(s2)

(* update_display, lines 318-369 *)
UpdateDisplay(s, t) ==
    IF s.mode = "clock" THEN Returned(s)
    ELSE IF s.mode = "stopwatch"
         THEN Returned(IF Recomputes(s)
                       THEN [s EXCEPT !.elapsed = t - s.start_time]
                       ELSE s)
         ELSE IF s.mode \in CountModes /\ Recomputes(s)
              THEN CountBranch(s, t)
              ELSE Returned(s)

(* --------------------------- the operations --------------------------- *)

(* lines 296-299 without the assignments to self.start_time *)
StartAnchorStale(s, t) == s.start_time

(* line 297 without "- self.elapsed": the stopwatch anchored like a count *)
StartAnchorNoOffset(s, t) ==
    IF s.mode \in CountModes \cup {"stopwatch"} THEN t ELSE s.start_time

(* lines 296-299: the anchor written by a start *)
StartAnchor(s, t) ==
    IF s.mode = "stopwatch" THEN t - s.elapsed
    ELSE IF s.mode \in CountModes THEN t
    ELSE s.start_time

(* toggle_timer with the anchor also written by the pause branch *)
ToggleTimerReanchors(s, t) ==
    IF s.is_running
    THEN [s EXCEPT !.is_running = FALSE,
                   !.start_time = t,
                   !.phase = "Paused",
                   !.accumulated = @ + (t - s.anchor)]
    ELSE [s EXCEPT !.is_running = TRUE,
                   !.start_time = StartAnchor(s, t),
                   !.phase = "Running",
                   !.anchor = t,
                   !.effects = <<>>]

(* toggle_timer, lines 286-299 *)
ToggleTimer(s, t) ==
    IF s.is_running
    THEN [s EXCEPT !.is_running = FALSE,
                   !.phase = "Paused",
                   !.accumulated = @ + (t - s.anchor)]
    ELSE [s EXCEPT !.is_running = TRUE,
                   !.start_time = StartAnchor(s, t),
                   !.phase = "Running",
                   !.anchor = t,
                   !.effects = <<>>]

(* reset_timer without line 303 *)
ResetTimerKeepsRunning(s, t) ==
    UpdateDisplay([s EXCEPT !.elapsed = 0,
                            !.remaining = s.duration,
                            !.phase = "Stopped",
                            !.accumulated = 0,
                            !.effects = <<>>], t)

(* reset_timer, lines 301-309 (it calls update_display, line 308) *)
ResetTimer(s, t) ==
    UpdateDisplay([s EXCEPT !.is_running = FALSE,
                            !.elapsed = 0,
                            !.remaining = s.duration,
                            !.phase = "Stopped",
                            !.accumulated = 0,
                            !.effects = <<>>], t)

(* set_duration without line 314 *)
SetDurationKeepsRemaining(s, seconds, t) ==
    UpdateDisplay([s EXCEPT !.duration = seconds], t)

(* set_duration, lines 311-316 (it calls update_display, line 315) *)
SetDuration(s, seconds, t) ==
    UpdateDisplay([s EXCEPT !.duration = seconds,
                            !.remaining = seconds], t)

(* start_pomodoro without line 283 *)
StartPomodoroKeeps(s) == s

(* start_pomodoro, lines 281-284 *)
StartPomodoro(s) == [s EXCEPT !.duration = PomodoroDuration]

(* switch_mode, lines 258-267 *)
SwitchMode(s, m, t) ==
    LET r == ResetTimer([s EXCEPT !.mode = m], t)
    IN  IF r.raised THEN r
        ELSE IF m = "pomodoro" THEN [r EXCEPT !.st = StartPomodoro(@)]
        ELSE r

(* ------------------------------ actions ------------------------------- *)

(* the engine as __init__ leaves it *)
Constructed ==
    /\ mode = "clock"
    /\ is_running = FALSE
    /\ start_time = 0
    /\ duration = DefaultDuration
    /\ elapsed = 0
    /\ remaining = 0
    /\ sound_enabled = "unset"
    /\ stats = [total_sessions |-> 0, total_time |-> 0,
                completed_timers |-> 0, average_duration |-> 0]
    /\ pending = 1                       \* __init__ ends with update_display()
    /\ now = 0
    /\ phase = "Stopped"
    /\ anchor = 0
    /\ accumulated = 0
    /\ effects = <<>>
    /\ startedFrom = "Stopped"
    /\ disturbed = FALSE
    /\ last = "op"
    /\ anchored = FALSE
    /\ pc = [t \in Threads |-> IF t = "srv" THEN "boot" ELSE "idle"]
    /\ loc = [t \in Threads |-> NoLocals]
    /\ request = "none"
    /\ response = NoResponse
    /\ time_display = <<0, 0, 0>>          \* text="00:00:00"
    /\ presets = Empty                    \* no file: load_presets returns {}
    /\ current_theme = "default"
    /\ presets_file = Absent
    /\ stats_file = Absent
    /\ disk = "ok"
    /\ previous = <<>>

Init == Constructed /\ NoConfig

Passed(l) == IF l = "tick" THEN "ticked" ELSE l

(* the wall clock advances *)
Advance ==
    /\ now + Quantum <= MaxNow
    /\ now' = now + Quantum
    /\ last' = Passed(last)
    /\ UNCHANGED <<mode, is_running, start_time, duration, elapsed, remaining,
                   sound_enabled, stats, stats_file, pending,
                   phase, anchor, accumulated, effects, startedFrom, disturbed,
                   anchored, threads, io>>

(* a scheduled update_display runs *)
Tick ==
    /\ pending > 0
    /\ \E p \in Taken(pending) :
          Store(UpdateDisplay([Cur EXCEPT !.pending = p], now).st)
    /\ last' = "tick"
    /\ UNCHANGED <<now, startedFrom, disturbed, anchored, threads, io>>

(* the Start/Pause button, <space> *)
Toggle ==
    /\ Store(ToggleTimer(Cur, now))
    /\ startedFrom' = IF is_running THEN startedFrom ELSE phase
    /\ disturbed' = IF is_running \/ phase = "Paused" THEN disturbed ELSE FALSE
    /\ anchored' = IF is_running THEN anchored
                   ELSE mode \in CountModes \cup {"stopwatch"}
    /\ last' = "op"
    /\ UNCHANGED <<now, threads, io>>

(* the Reset button, 'r' *)
ResetOp ==
    /\ Store(ResetTimer(Cur, now).st)
    /\ last' = "op"
    /\ UNCHANGED <<now, startedFrom, disturbed, anchored, threads, outside>>

Reset == ResetOp /\ UNCHANGED previous

(* a quick-time button, '1', '5', '0' *)
SetDur ==
    /\ \E seconds \in QuickTimes : Store(SetDuration(Cur, seconds, now).st)
    /\ disturbed' = TRUE
    /\ last' = "op"
    /\ UNCHANGED <<now, startedFrom, anchored, threads, io>>

(* a mode button, F1..F5 *)
SwitchTo(m) ==
    /\ Store(SwitchMode(Cur, m, now).st)
    /\ last' = "op"
    /\ UNCHANGED <<now, startedFrom, disturbed, anchored, threads, io>>

Switch == \E m \in SwitchModes : SwitchTo(m)

(* open_settings, line 413: self.sound_enabled = tk.BooleanVar(value=True) *)
OpenSettings ==
    /\ sound_enabled = "unset"
    /\ sound_enabled' = "on"
    /\ last' = Passed(last)
    /\ UNCHANGED <<mode, is_running, start_time, duration, elapsed, remaining,
                   stats, stats_file, pending, now,
                   phase, anchor, accumulated, effects, startedFrom, disturbed,
                   anchored, threads, io>>

Next ==
    \/ Advance
    \/ Tick
    \/ Toggle
    \/ Reset
    \/ SetDur
    \/ Switch
    \/ OpenSettings

Spec == Init /\ [][Next]_vars

TypeOK ==
    /\ mode \in Modes
    /\ is_running \in BOOLEAN
    /\ start_time \in -MaxNow..MaxNow
    /\ duration \in QuickTimes \cup {DefaultDuration, PomodoroDuration}
    /\ elapsed \in 0..MaxNow
    /\ remaining \in 0..PomodoroDuration
    /\ sound_enabled \in {"unset", "on", "off"}
    /\ pending \in 0..MaxPending
    /\ now \in 0..MaxNow
    /\ phase \in Phases


(* ====================================================================== *)
(* The two threads, statement by statement                                *)
(* ====================================================================== *)
(* The same functions of UltraTimer, one step per statement that reads or   *)
(* writes the engine fields, executed by the user-interface thread "ui"     *)
(* (scheduled update_display, the mode buttons) and by the remote-control   *)
(* thread "srv" (the commands).  No statement of the source takes a lock.   *)
(* The history variables of the user-interface operations are not advanced. *)

MaxRemoteSteps == 1      \* the clock runs up to MaxRemoteSteps * Quantum seconds here
MaxCompleted == 1        \* no operation begins once this many completions are counted

MayBegin == stats.completed_timers < MaxCompleted

Commands == {"start", "reset", "1min", "5min"}

Idle(t) == pc[t] = "idle"

Goto(t, label) == pc' = [pc EXCEPT ![t] = label]

(* an exception unwinds the operation of thread t *)
Unwind(t) ==
    /\ pc' = [pc EXCEPT ![t] = "idle"]
    /\ loc' = [loc EXCEPT ![t] = NoLocals]

(* start_web_server, lines 629-725: the thread finds a port and builds the  *)
(* HTTPServer; any exception is printed and the thread ends.               *)
RunServer ==
    /\ pc["srv"] = "boot"
    /\ \E ok \in BOOLEAN : Goto("srv", IF ok THEN "idle" ELSE "dead")
    /\ UNCHANGED <<mode, is_running, start_time, duration, elapsed, remaining,
                   sound_enabled, stats, stats_file, pending, now, anchored, loc, hist, io>>

(* the command dispatch of the remote-control protocol: /command/start is   *)
(* the start/pause toggle, /command/reset is reset, /command/Nmin is        *)
(* set_duration(N * 60); the engine function runs on the server thread.    *)
RemoteCommand ==
    /\ Idle("srv")
    /\ MayBegin
    /\ \E cmd \in Commands :
          /\ Goto("srv", CASE cmd = "start" -> "tg_test"
                           [] cmd = "reset" -> "rs_run"
                           [] OTHER -> "sd_duration")
          /\ loc' = [loc EXCEPT !["srv"] =
                        [NoLocals EXCEPT !.op = cmd,
                                         !.arg = CASE cmd = "1min" -> 60
                                                   [] cmd = "5min" -> 300
                                                   [] OTHER -> 0]]
    /\ UNCHANGED <<mode, is_running, start_time, duration, elapsed, remaining,
                   sound_enabled, stats, stats_file, pending, now, anchored, hist, io>>

(* the event loop runs a scheduled update_display *)
BeginTick ==
    /\ Idle("ui")
    /\ MayBegin
    /\ pending > 0
    /\ pending' \in Taken(pending)
    /\ Goto("ui", "ud_mode")
    /\ loc' = [loc EXCEPT !["ui"] = [NoLocals EXCEPT !.op = "tick"]]
    /\ UNCHANGED <<mode, is_running, start_time, duration, elapsed, remaining,
                   sound_enabled, stats, stats_file, now, anchored, hist, io>>

(* switch_mode, line 260: self.mode.set(mode); then reset_timer(), line 261 *)
BeginSwitch ==
    /\ Idle("ui")
    /\ MayBegin
    /\ \E m \in SwitchModes :
          /\ mode' = m
          /\ loc' = [loc EXCEPT !["ui"] =
                        [NoLocals EXCEPT !.op = "switch_mode",
                                         !.cont = IF m = "pomodoro"
                                                  THEN "sm_pomodoro" ELSE "idle"]]
    /\ Goto("ui", "rs_run")
    /\ UNCHANGED <<is_running, start_time, duration, elapsed, remaining,
                   sound_enabled, stats, stats_file, pending, now, anchored, hist, io>>

(* start_pomodoro, line 283 *)
SmPomodoro ==
    /\ pc["ui"] = "sm_pomodoro"
    /\ duration' = PomodoroDuration
    /\ Unwind("ui")
    /\ UNCHANGED <<mode, is_running, start_time, elapsed, remaining,
                   sound_enabled, stats, stats_file, pending, now, anchored, hist, io>>

(* open_settings, line 413, between two callbacks of the event loop *)
RemoteOpenSettings ==
    /\ Idle("ui")
    /\ sound_enabled = "unset"
    /\ sound_enabled' = "on"
    /\ UNCHANGED <<mode, is_running, start_time, duration, elapsed, remaining,
                   stats, stats_file, pending, now, anchored, threads, hist, io>>

(* the wall clock advances *)
RemoteAdvance ==
    /\ now + Quantum <= MaxRemoteSteps * Quantum
    /\ now' = now + Quantum
    /\ UNCHANGED <<mode, is_running, start_time, duration, elapsed, remaining,
                   sound_enabled, stats, stats_file, pending, anchored, threads, hist, io>>

(* toggle_timer, line 288: if self.is_running *)
TgTest(t) ==
    /\ pc[t] = "tg_test"
    /\ Goto(t, IF is_running THEN "tg_stop" ELSE "tg_run")
    /\ UNCHANGED <<mode, is_running, start_time, duration, elapsed, remaining,
                   sound_enabled, stats, stats_file, pending, now, anchored, loc, hist, io>>

(* line 289: self.is_running = False *)
TgStop(t) ==
    /\ pc[t] = "tg_stop"
    /\ is_running' = FALSE
    /\ Unwind(t)
    /\ UNCHANGED <<mode, start_time, duration, elapsed, remaining,
                   sound_enabled, stats, stats_file, pending, now, anchored, hist, io>>

(* line 293: self.is_running = True *)
TgRun(t) ==
    /\ pc[t] = "tg_run"
    /\ is_running' = TRUE
    /\ anchored' = FALSE
    /\ Goto(t, "tg_anchor")
    /\ UNCHANGED <<mode, start_time, duration, elapsed, remaining,
                   sound_enabled, stats, stats_file, pending, now, loc, hist, io>>

(* lines 296-299: self.start_time = ... *)
TgAnchor(t) ==
    /\ pc[t] = "tg_anchor"
    /\ start_time' = StartAnchor(Cur, now)
    /\ anchored' = (mode \in CountModes \cup {"stopwatch"})
    /\ Unwind(t)
    /\ UNCHANGED <<mode, is_running, duration, elapsed, remaining,
                   sound_enabled, stats, stats_file, pending, now, hist, io>>

(* reset_timer, line 303: self.is_running = False *)
RsRun(t) ==
    /\ pc[t] = "rs_run"
    /\ is_running' = FALSE
    /\ Goto(t, "rs_elapsed")
    /\ UNCHANGED <<mode, start_time, duration, elapsed, remaining,
                   sound_enabled, stats, stats_file, pending, now, anchored, loc, hist, io>>

(* line 304: self.elapsed = 0 *)
RsElapsed(t) ==
    /\ pc[t] = "rs_elapsed"
    /\ elapsed' = 0
    /\ Goto(t, "rs_remaining")
    /\ UNCHANGED <<mode, is_running, start_time, duration, remaining,
                   sound_enabled, stats, stats_file, pending, now, anchored, loc, hist, io>>

(* line 305: self.remaining = self.duration; line 308: update_display() *)
RsRemaining(t) ==
    /\ pc[t] = "rs_remaining"
    /\ remaining' = duration
    /\ Goto(t, "ud_mode")
    /\ UNCHANGED <<mode, is_running, start_time, duration, elapsed,
                   sound_enabled, stats, stats_file, pending, now, anchored, loc, hist, io>>

(* set_duration, line 313: self.duration = seconds *)
SdDuration(t) ==
    /\ pc[t] = "sd_duration"
    /\ duration' = loc[t].arg
    /\ Goto(t, "sd_remaining")
    /\ UNCHANGED <<mode, is_running, start_time, elapsed, remaining,
                   sound_enabled, stats, stats_file, pending, now, anchored, loc, hist, io>>

(* line 314: self.remaining = seconds; line 315: update_display() *)
SdRemaining(t) ==
    /\ pc[t] = "sd_remaining"
    /\ remaining' = loc[t].arg
    /\ Goto(t, "ud_mode")
    /\ UNCHANGED <<mode, is_running, start_time, duration, elapsed,
                   sound_enabled, stats, stats_file, pending, now, anchored, loc, hist, io>>

(* update_display, lines 320, 322, 330: the branch on self.mode.get() *)
UdMode(t) ==
    /\ pc[t] = "ud_mode"
    /\ Goto(t, IF mode = "clock" THEN "ud_schedule"
               ELSE IF mode = "stopwatch" THEN "ud_stopwatch"
               ELSE "ud_test")
    /\ UNCHANGED <<mode, is_running, start_time, duration, elapsed, remaining,
                   sound_enabled, stats, stats_file, pending, now, anchored, loc, hist, io>>

(* lines 323-324: if self.is_running: self.elapsed = time.time() - self.start_time *)
UdStopwatch(t) ==
    /\ pc[t] = "ud_stopwatch"
    /\ elapsed' = IF Recomputes(Cur) THEN now - start_time ELSE elapsed
    /\ Goto(t, "ud_schedule")
    /\ UNCHANGED <<mode, is_running, start_time, duration, remaining,
                   sound_enabled, stats, stats_file, pending, now, anchored, loc, hist, io>>

(* line 331: if self.is_running *)
UdTest(t) ==
    /\ pc[t] = "ud_test"
    /\ Goto(t, IF Recomputes(Cur) THEN "ud_elapsed" ELSE "ud_schedule")
    /\ UNCHANGED <<mode, is_running, start_time, duration, elapsed, remaining,
                   sound_enabled, stats, stats_file, pending, now, anchored, loc, hist, io>>

(* line 332: elapsed = time.time() - self.start_time *)
UdElapsed(t) ==
    /\ pc[t] = "ud_elapsed"
    /\ loc' = [loc EXCEPT ![t].el = ElapsedAt(Cur, now)]
    /\ Goto(t, "ud_remaining")
    /\ UNCHANGED <<mode, is_running, start_time, duration, elapsed, remaining,
                   sound_enabled, stats, stats_file, pending, now, anchored, hist, io>>

(* line 333: self.remaining = max(0, self.duration - elapsed) *)
UdRemaining(t) ==
    /\ pc[t] = "ud_remaining"
    /\ remaining' = Max(0, duration - loc[t].el)
    /\ Goto(t, "ud_check")
    /\ UNCHANGED <<mode, is_running, start_time, duration, elapsed,
                   sound_enabled, stats, stats_file, pending, now, anchored, loc, hist, io>>

(* lines 336-352: the progress bar (a division by self.duration), the       *)
(* threshold sounds and the test of the finish                             *)
UdCheck(t) ==
    /\ pc[t] = "ud_check"
    /\ IF \/ duration = 0
          \/ ThresholdSound(remaining) /= "none" /\ PlaySoundRaises(Cur)
       THEN Unwind(t)
       ELSE /\ Goto(t, IF IsFinished(remaining) THEN "ud_stop" ELSE "ud_schedule")
            /\ UNCHANGED loc
    /\ UNCHANGED <<mode, is_running, start_time, duration, elapsed, remaining,
                   sound_enabled, stats, stats_file, pending, now, anchored, hist, io>>

(* line 353: self.is_running = False; line 354: play_sound("finish") *)
UdStop(t) ==
    /\ pc[t] = "ud_stop"
    /\ is_running' = FALSE
    /\ IF PlaySoundRaises(Cur)
       THEN Unwind(t)
       ELSE Goto(t, "ud_stats") /\ UNCHANGED loc
    /\ UNCHANGED <<mode, start_time, duration, elapsed, remaining,
                   sound_enabled, stats, stats_file, pending, now, anchored, hist, io>>

(* lines 355-357: the notification, completed_timers += 1, save_stats() *)
UdStats(t) ==
    /\ pc[t] = "ud_stats"
    /\ IF CountRaises(Cur)
       THEN UNCHANGED <<stats, stats_file>> /\ Unwind(t)
       ELSE /\ stats' = CountCompletion(Cur).stats
            /\ stats_file' = SaveStats(CountCompletion(Cur)).stats_file
            /\ IF WriteRaises THEN Unwind(t)
               ELSE Goto(t, "ud_schedule") /\ UNCHANGED loc
    /\ UNCHANGED <<mode, is_running, start_time, duration, elapsed, remaining,
                   sound_enabled, pending, now, anchored, hist, io>>

(* line 369: self.root.after(100, self.update_display); then the caller     *)
(* goes on (switch_mode) or returns                                        *)
UdSchedule(t) ==
    /\ pc[t] = "ud_schedule"
    /\ pending' = Schedule(Cur).pending
    /\ pc' = [pc EXCEPT ![t] = loc[t].cont]
    /\ loc' = [loc EXCEPT ![t] = IF loc[t].cont = "idle" THEN NoLocals
                                 ELSE [@ EXCEPT !.cont = "idle"]]
    /\ UNCHANGED <<mode, is_running, start_time, duration, elapsed, remaining,
                   sound_enabled, stats, stats_file, now, anchored, hist, io>>

RemoteNext ==
    \/ RunServer
    \/ RemoteCommand
    \/ BeginTick
    \/ BeginSwitch
    \/ SmPomodoro
    \/ RemoteOpenSettings
    \/ RemoteAdvance
    \/ \E t \in Threads : TgTest(t)
    \/ \E t \in Threads : TgStop(t)
    \/ \E t \in Threads : TgRun(t)
    \/ \E t \in Threads : TgAnchor(t)
    \/ \E t \in Threads : RsRun(t)
    \/ \E t \in Threads : RsElapsed(t)
    \/ \E t \in Threads : RsRemaining(t)
    \/ \E t \in Threads : SdDuration(t)
    \/ \E t \in Threads : SdRemaining(t)
    \/ \E t \in Threads : UdMode(t)
    \/ \E t \in Threads : UdStopwatch(t)
    \/ \E t \in Threads : UdTest(t)
    \/ \E t \in Threads : UdElapsed(t)
    \/ \E t \in Threads : UdRemaining(t)
    \/ \E t \in Threads : UdCheck(t)
    \/ \E t \in Threads : UdStop(t)
    \/ \E t \in Threads : UdStats(t)
    \/ \E t \in Threads : UdSchedule(t)

SpecRemote == Init /\ [][RemoteNext]_vars

(* ====================================================================== *)
(* The operations called with any argument                                *)
(* ====================================================================== *)
(* set_duration is a method of UltraTimer and validates nothing: here it is *)
(* called with arguments the quick buttons do not offer.                    *)

MaxCallSteps == 2        \* the clock runs up to MaxCallSteps * Quantum seconds here
MaxCallCompleted == 2    \* no timer is started once this many completions are counted

CallSeconds == {-5, 0, 60, 300}

(* the wall clock advances *)
CallAdvance ==
    /\ now + Quantum <= MaxCallSteps * Quantum
    /\ now' = now + Quantum
    /\ last' = Passed(last)
    /\ UNCHANGED <<mode, is_running, start_time, duration, elapsed, remaining,
                   sound_enabled, stats, stats_file, pending,
                   phase, anchor, accumulated, effects, startedFrom, disturbed,
                   anchored, threads, io>>

(* set_duration(seconds), lines 311-316 *)
SetDurationCall(seconds) ==
    /\ Store(SetDuration(Cur, seconds, now).st)
    /\ disturbed' = TRUE
    /\ last' = "op"
    /\ UNCHANGED <<now, startedFrom, anchored, threads, io>>

CallSetDuration == \E seconds \in CallSeconds : SetDurationCall(seconds)

(* the Start/Pause control, while the count of completions is below its cap *)
CallToggle ==
    /\ stats.completed_timers < MaxCallCompleted
    /\ Toggle

(* switch_mode(mode) with a mode of the program or with any other string *)
CallModes == SwitchModes \cup {"lap"}

CallSwitchMode == \E m \in CallModes : SwitchTo(m)

CallNext ==
    \/ CallAdvance
    \/ Tick
    \/ CallToggle
    \/ Reset
    \/ CallSetDuration
    \/ CallSwitchMode
    \/ OpenSettings

SpecCalls == Init /\ [][CallNext]_vars

(* ====================================================================== *)
(* The text of the display                                                *)
(* ====================================================================== *)
(* update_display, lines 359-366 and 325-328: the fields of the text it     *)
(* writes to self.time_display (each field is printed with two digits).     *)
(* The seconds are whole here, as the clock of the model is.                *)

MaxShown == 7325         \* the largest number of seconds displayed

Hours(r) == r \div 3600                  \* line 359

(* line 360 without "% 3600" *)
MinutesOfTotal(r) == r \div 60

Minutes(r) == (r % 3600) \div 60         \* line 360

Seconds(r) == r % 60                     \* line 361

(* lines 363-366 *)
TimeString(r) ==
    IF Hours(r) > 0
    THEN <<Hours(r), Minutes(r), Seconds(r)>>
    ELSE <<Minutes(r), Seconds(r)>>

(* lines 325-328: the stopwatch always shows the hours *)
StopwatchString(e) == <<Hours(e), Minutes(e), Seconds(e)>>

(* the text after an update_display that has returned *)
Shown(s, old) ==
    IF s.mode \in CountModes THEN TimeString(s.remaining)
    ELSE IF s.mode = "stopwatch" THEN StopwatchString(s.elapsed)
    ELSE old

(* a scheduled update_display runs, with the text it writes *)
ShownTick ==
    /\ pending > 0
    /\ \E p \in Taken(pending) :
          LET u == UpdateDisplay([Cur EXCEPT !.pending = p], now)
          IN  /\ Store(u.st)
              /\ time_display' = IF u.raised THEN time_display
                                 ELSE Shown(u.st, time_display)
    /\ last' = "tick"
    /\ UNCHANGED <<now, startedFrom, disturbed, anchored, threads,
                   request, response,
                   presets, current_theme, presets_file, disk, previous, cfg>>

(* a stopped timer whose duration and remaining have been set to d seconds  *)
(* (set_duration, lines 313-314; apply_preset, lines 552-553)               *)
InitShown ==
    /\ mode = "timer"
    /\ is_running = FALSE
    /\ start_time = 0
    /\ \E d \in 0..MaxShown : duration = d /\ remaining = d
    /\ elapsed = 0
    /\ sound_enabled = "unset"
    /\ stats = [total_sessions |-> 0, total_time |-> 0,
                completed_timers |-> 0, average_duration |-> 0]
    /\ pending = 1
    /\ now = 0
    /\ phase = "Stopped"
    /\ anchor = 0
    /\ accumulated = 0
    /\ effects = <<>>
    /\ startedFrom = "Stopped"
    /\ disturbed = TRUE
    /\ last = "op"
    /\ anchored = FALSE
    /\ pc = [t \in Threads |-> IF t = "srv" THEN "boot" ELSE "idle"]
    /\ loc = [t \in Threads |-> NoLocals]
    /\ request = "none"
    /\ response = NoResponse
    /\ time_display = <<0, 0, 0>>
    /\ presets = Empty
    /\ current_theme = "default"
    /\ presets_file = Absent
    /\ stats_file = Absent
    /\ disk = "ok"
    /\ previous = <<>>
    /\ NoConfig

ShownNext == ShownTick

SpecShown == InitShown /\ [][ShownNext]_vars

(* ====================================================================== *)
(* The remote-control server as the source has it                         *)
(* ====================================================================== *)
(* run_server, lines 631-721, finds a port, writes the page to a temporary  *)
(* file, constructs HTTPServer(('0.0.0.0', port), SimpleHTTPRequestHandler) *)
(* and returns: it never calls serve_forever or handle_request, and no      *)
(* handler for /status or /command/... is defined.  The thread ends there.  *)

(* the paths the page requests, lines 675-681 and 688 *)
CommandPaths == {"/command/start", "/command/reset",
                 "/command/1min", "/command/5min", "/command/10min"}
StatusPath == "/status"
Paths == CommandPaths \cup {StatusPath, "/other"}

(* the engine operation a command path stands for *)
OperationOf(path) ==
    CASE path = "/command/start" -> "toggle_timer"
      [] path = "/command/reset" -> "reset_timer"
      [] OTHER -> "set_duration"

(* start_web_server with the exception of run_server not caught: it ends   *)
(* the process, and with it the update loop                                *)
RunServerUncaught ==
    /\ pc["srv"] = "boot"
    /\ \E ok \in BOOLEAN :
          /\ Goto("srv", IF ok THEN "done" ELSE "failed")
          /\ pending' = IF ok THEN pending ELSE 0
    /\ UNCHANGED <<mode, is_running, start_time, duration, elapsed, remaining,
                   sound_enabled, stats, stats_file, now, anchored, loc, hist, io>>

(* run_server returns and the thread ends: "done" after line 715, "failed"  *)
(* after an exception (the port cannot be bound, the page cannot be         *)
(* written, ...), which lines 720-721 catch and print                       *)
RunServerReturns ==
    /\ pc["srv"] = "boot"
    /\ \E ok \in BOOLEAN : Goto("srv", IF ok THEN "done" ELSE "failed")
    /\ UNCHANGED <<mode, is_running, start_time, duration, elapsed, remaining,
                   sound_enabled, stats, stats_file, pending, now, anchored, loc, hist, io>>

(* the page in a browser sends a request, lines 684-692 *)
ClientRequest ==
    /\ request = "none"
    /\ request' \in Paths
    /\ UNCHANGED <<mode, is_running, start_time, duration, elapsed, remaining,
                   sound_enabled, stats, stats_file, pending, now, anchored,
                   threads, hist, response, time_display,
                   presets, current_theme, presets_file, disk, previous, cfg>>

ServerNext ==
    \/ RunServerReturns
    \/ ClientRequest
    \/ Tick
    \/ Toggle
    \/ Reset
    \/ SetDur
    \/ Switch
    \/ OpenSettings

SpecServer == Init /\ [][ServerNext]_vars

(* ---------------- presets, statistics and settings on disk ------------- *)

MaxStoreSteps == 1       \* the clock runs up to MaxStoreSteps * Quantum seconds here
MaxStoreCompleted == 1   \* no timer is started once this many completions are counted

PresetWarningTime == 120   \* warning_time: int = 120
PresetCriticalTime == 60   \* critical_time: int = 60

PresetFields ==
    {"name", "duration", "warning_time", "critical_time", "sound_enabled",
     "color_theme"}

(* lines 93-98 *)
DefaultStats ==
    [total_sessions |-> 0, total_time |-> 0,
     completed_timers |-> 0, average_duration |-> 0]

(* TimerPreset of preset_data: a TypeError when a field without default is  *)
(* missing or a key is not a field                                          *)
TimerPresetRaises(o) ==
    \/ ~({"name", "duration"} \subseteq DOMAIN o)
    \/ ~(DOMAIN o \subseteq PresetFields)

(* TimerPreset of preset_data, lines 27-35: a missing field gets its default *)
TimerPresetOf(o) ==
    [name |-> o.name,
     duration |-> o.duration,
     warning_time |-> IF "warning_time" \in DOMAIN o
                      THEN o.warning_time ELSE PresetWarningTime,
     critical_time |-> IF "critical_time" \in DOMAIN o
                       THEN o.critical_time ELSE PresetCriticalTime,
     sound_enabled |-> IF "sound_enabled" \in DOMAIN o
                       THEN o.sound_enabled ELSE TRUE,
     color_theme |-> IF "color_theme" \in DOMAIN o
                     THEN o.color_theme ELSE "default"]

(* vars(preset) written without the field warning_time *)
PresetObjectNoWarning(p) ==
    [name |-> p.name, duration |-> p.duration,
     critical_time |-> p.critical_time,
     sound_enabled |-> p.sound_enabled, color_theme |-> p.color_theme]

(* vars(preset), line 563: the JSON object of a preset *)
PresetObject(p) ==
    [name |-> p.name, duration |-> p.duration,
     warning_time |-> p.warning_time, critical_time |-> p.critical_time,
     sound_enabled |-> p.sound_enabled, color_theme |-> p.color_theme]

(* lines 562-565: {name: vars(preset) for name, preset in presets.items()} *)
DumpPresets(ps) == [n \in DOMAIN ps |-> PresetObject(ps[n])]

(* lines 573-576, 617-620: {name: TimerPreset of preset_data for ...} *)
PresetsRaise(doc) == \E n \in DOMAIN doc : TimerPresetRaises(doc[n])
PresetsOf(doc) == [n \in DOMAIN doc |-> TimerPresetOf(doc[n])]

(* load_presets, lines 568-577: json.load raises on a file that is not a    *)
(* JSON document                                                            *)
LoadPresets(file) ==
    IF file.kind = "absent" THEN [value |-> Empty, raised |-> FALSE]
    ELSE IF file.kind = "truncated" \/ PresetsRaise(file.doc)
         THEN [value |-> Empty, raised |-> TRUE]
         ELSE [value |-> PresetsOf(file.doc), raised |-> FALSE]

(* load_stats, lines 584-588: self.stats = json.load(f) *)
LoadStats(file, cur) ==
    IF file.kind = "absent" THEN [value |-> cur, raised |-> FALSE]
    ELSE IF file.kind = "truncated" THEN [value |-> cur, raised |-> TRUE]
         ELSE [value |-> StatsObject(file.doc), raised |-> FALSE]

(* the files a start of the application may find: none, one cut short, and  *)
(* one written by a version whose presets had only a name and a duration    *)
(* or whose statistics counted only the sessions                            *)
PresetFiles ==
    {Absent, Truncated, Document([a |-> [name |-> "a", duration |-> 60]])}

StatsFiles ==
    {Absent, Truncated, Document([total_sessions |-> 5])}

(* the documents import_settings is given: an export of a fresh            *)
(* installation that has one preset, and one holding only a theme           *)
SettingsDocs ==
    {[presets |-> [b |-> [name |-> "b", duration |-> 60, warning_time |-> 90,
                          critical_time |-> 30, sound_enabled |-> FALSE,
                          color_theme |-> "dark"]],
      stats |-> DefaultStats, theme |-> "dark", sound_enabled |-> TRUE],
     [theme |-> "dark"]}

SavedNames == {"a"}      \* the names typed into the dialog of save_preset

Get(d, k, default) == IF k \in DOMAIN d THEN d[k] ELSE default

Completed(s) == Get(s, "completed_timers", 0)

Running == pc["ui"] = "idle"

(* the process before __init__ has loaded the files, lines 38-80 *)
InitStore ==
    /\ mode = "clock"
    /\ is_running = FALSE
    /\ start_time = 0
    /\ duration = DefaultDuration
    /\ elapsed = 0
    /\ remaining = 0
    /\ sound_enabled = "unset"
    /\ stats = DefaultStats
    /\ pending = 0
    /\ now = 0
    /\ phase = "Stopped"
    /\ anchor = 0
    /\ accumulated = 0
    /\ effects = <<>>
    /\ startedFrom = "Stopped"
    /\ disturbed = FALSE
    /\ last = "op"
    /\ anchored = FALSE
    /\ pc = [t \in Threads |-> IF t = "srv" THEN "boot" ELSE "init"]
    /\ loc = [t \in Threads |-> NoLocals]
    /\ request = "none"
    /\ response = NoResponse
    /\ time_display = <<0, 0, 0>>
    /\ presets = Empty
    /\ current_theme = "default"
    /\ presets_file \in PresetFiles
    /\ stats_file \in StatsFiles
    /\ disk = "ok"
    /\ previous = <<>>
    /\ NoConfig

(* __init__, lines 82, 100 and 110: load_presets(), load_stats() and the    *)
(* first update_display(); an exception of a load leaves __init__ and ends  *)
(* the process at line 732                                                  *)
Startup ==
    /\ pc["ui"] = "init"
    /\ LET p == LoadPresets(presets_file)
           s == LoadStats(stats_file, stats)
           ok == ~p.raised /\ ~s.raised
       IN  /\ presets' = p.value
           /\ stats' = IF p.raised THEN stats ELSE s.value
           /\ pc' = [pc EXCEPT !["ui"] = IF ok THEN "idle" ELSE "crashed"]
           /\ pending' = IF ok THEN 1 ELSE 0
    /\ last' = "op"
    /\ UNCHANGED <<mode, is_running, start_time, duration, elapsed, remaining,
                   sound_enabled, stats_file, now,
                   phase, anchor, accumulated, effects, startedFrom, disturbed,
                   anchored, loc, request, response, time_display,
                   current_theme, presets_file, disk, previous, cfg>>

(* save_preset, lines 516-528, with the name typed into the dialog:         *)
(* self.sound_enabled.get() raises AttributeError before anything is        *)
(* assigned when open_settings has never run                                *)
SavePreset ==
    /\ Running
    /\ \E name \in SavedNames :
          IF sound_enabled = "unset"
          THEN UNCHANGED <<presets, presets_file>>
          ELSE LET preset == TimerPresetOf(
                       [name |-> name, duration |-> duration,
                        sound_enabled |-> (sound_enabled = "on"),
                        color_theme |-> current_theme])
                   ps == [n \in DOMAIN presets \cup {name} |->
                             IF n = name THEN preset ELSE presets[n]]
               IN  /\ presets' = ps
                   /\ presets_file' = Written(DumpPresets(ps))
    /\ last' = "op"
    /\ UNCHANGED <<mode, is_running, start_time, duration, elapsed, remaining,
                   sound_enabled, stats, stats_file, pending, now,
                   phase, anchor, accumulated, effects, startedFrom, disturbed,
                   anchored, threads, request, response, time_display,
                   current_theme, disk, previous, cfg>>

(* import_settings, lines 607-627: the assignments of lines 617-620 are     *)
(* made before sound_enabled.set can raise at line 621, and save_stats is   *)
(* not reached when save_presets raises                                     *)
ImportSettings ==
    /\ Running
    /\ \E settings \in SettingsDocs :
          LET doc == Get(settings, "presets", Empty)
              ps == PresetsOf(doc)
              st == IF "stats" \in DOMAIN settings
                    THEN StatsObject(settings.stats) ELSE stats
          IN  IF PresetsRaise(doc)
              THEN UNCHANGED <<presets, stats, current_theme, sound_enabled,
                               presets_file, stats_file>>
              ELSE /\ presets' = ps
                   /\ stats' = st
                   /\ current_theme' = Get(settings, "theme", "default")
                   /\ IF sound_enabled = "unset"
                      THEN UNCHANGED <<sound_enabled, presets_file, stats_file>>
                      ELSE /\ sound_enabled' =
                                IF Get(settings, "sound_enabled", TRUE)
                                THEN "on" ELSE "off"
                           /\ presets_file' = Written(DumpPresets(ps))
                           /\ stats_file' = IF WriteRaises THEN stats_file
                                            ELSE Document(StatsObject(st))
    /\ last' = "op"
    /\ UNCHANGED <<mode, is_running, start_time, duration, elapsed, remaining,
                   pending, now,
                   phase, anchor, accumulated, effects, startedFrom, disturbed,
                   anchored, threads, request, response, time_display,
                   disk, previous, cfg>>

(* apply_preset with the anchor written again *)
ApplyPresetRestarts(s, p, t) ==
    IF s.sound_enabled = "unset"
    THEN Raised([s EXCEPT !.duration = p.duration, !.remaining = p.duration])
    ELSE UpdateDisplay(
             [s EXCEPT !.duration = p.duration,
                       !.remaining = p.duration,
                       !.start_time = t,
                       !.sound_enabled = IF p.sound_enabled THEN "on" ELSE "off"],
             t)

(* apply_preset, lines 550-557: self.sound_enabled.set raises               *)
(* AttributeError at line 554, after the two assignments, when             *)
(* open_settings has never run                                              *)
ApplyPresetTo(s, p, t) ==
    IF s.sound_enabled = "unset"
    THEN Raised([s EXCEPT !.duration = p.duration, !.remaining = p.duration])
    ELSE UpdateDisplay(
             [s EXCEPT !.duration = p.duration,
                       !.remaining = p.duration,
                       !.sound_enabled = IF p.sound_enabled THEN "on" ELSE "off"],
             t)

(* a button of the window of load_preset, lines 541-547 *)
ApplyPreset ==
    /\ Running
    /\ \E n \in DOMAIN presets :
          /\ Store(ApplyPresetTo(Cur, presets[n], now).st)
          /\ current_theme' = IF sound_enabled = "unset" THEN current_theme
                              ELSE presets[n].color_theme
    /\ disturbed' = TRUE
    /\ last' = "op"
    /\ UNCHANGED <<now, startedFrom, anchored, threads, request, response,
                   time_display, presets, presets_file, disk, previous, cfg>>

(* the disk fills up: from now on a write stops part-way *)
DiskFills ==
    /\ disk = "ok"
    /\ disk' = "full"
    /\ UNCHANGED <<mode, is_running, start_time, duration, elapsed, remaining,
                   sound_enabled, stats, stats_file, pending, now,
                   anchored, threads, hist, request, response, time_display,
                   presets, current_theme, presets_file, previous, cfg>>

StoreAdvance ==
    /\ now + Quantum <= MaxStoreSteps * Quantum
    /\ now' = now + Quantum
    /\ last' = Passed(last)
    /\ UNCHANGED <<mode, is_running, start_time, duration, elapsed, remaining,
                   sound_enabled, stats, stats_file, pending,
                   phase, anchor, accumulated, effects, startedFrom, disturbed,
                   anchored, threads, io>>

StoreTick == Running /\ Tick

StoreToggle == Running /\ Completed(stats) < MaxStoreCompleted /\ Toggle

StoreReset == Running /\ Reset

StoreSetDuration == Running /\ SetDurationCall(CriticalTime)

StoreSwitch == Running /\ SwitchTo("timer")

StoreOpenSettings == Running /\ OpenSettings

StoreNext ==
    \/ Startup
    \/ SavePreset
    \/ ImportSettings
    \/ DiskFills
    \/ StoreAdvance
    \/ StoreTick
    \/ StoreToggle
    \/ StoreReset
    \/ StoreSetDuration
    \/ StoreSwitch
    \/ StoreOpenSettings

SpecStore == InitStore /\ [][StoreNext]_vars

(* ------------------- a preset applied to the engine -------------------- *)

(* the application starts with a presets file and without statistics file *)
InitApply ==
    /\ InitStore
    /\ presets_file.kind = "document"
    /\ stats_file = Absent

ApplyNext ==
    \/ Startup
    \/ ApplyPreset
    \/ StoreSetDuration
    \/ StoreSwitch
    \/ StoreToggle
    \/ StoreReset
    \/ StoreTick
    \/ StoreAdvance
    \/ StoreOpenSettings

SpecApply == InitApply /\ [][ApplyNext]_vars

(* ------------------- a countdown run, reset and run again -------------- *)

MaxRunSteps == 10        \* the clock runs up to MaxRunSteps * Quantum seconds here
MaxRunCompleted == 2     \* no timer is started once this many completions are counted

RunAdvance ==
    /\ now + Quantum <= MaxRunSteps * Quantum
    /\ now' = now + Quantum
    /\ last' = Passed(last)
    /\ UNCHANGED <<mode, is_running, start_time, duration, elapsed, remaining,
                   sound_enabled, stats, stats_file, pending,
                   phase, anchor, accumulated, effects, startedFrom, disturbed,
                   anchored, threads, io>>

RunToggle == Completed(stats) < MaxRunCompleted /\ Toggle

(* the Reset button; the side effects of the run it ends are remembered *)
RunReset == ResetOp /\ previous' = effects

RunSwitch == SwitchTo("timer")

RunNext ==
    \/ RunAdvance
    \/ Tick
    \/ RunToggle
    \/ RunReset
    \/ RunSwitch
    \/ OpenSettings

SpecRuns == Init /\ [][RunNext]_vars

(* ====================================================================== *)
(* Claims                                                                 *)
(* ====================================================================== *)

(* thread t is inside an operation that reads or writes the engine fields *)
InOperation(t) == pc[t] \notin {"idle", "boot", "dead"}

(* C1: every engine operation (start/pause toggle, reset, setDuration,      *)
(* switchMode) and every tick is mutually exclusive with every other: the   *)
(* user-interface thread and the remote-control thread are never both       *)
(* inside an operation on the engine fields.                               *)
C1_MutualExclusion == ~(InOperation("ui") /\ InOperation("srv"))

(* C2: whatever the interleaving of remote commands and ticks, running and  *)
(* the anchor are never observed inconsistent: an update that has found the *)
(* timer running computes the elapsed time from the anchor written by the   *)
(* start that made it running.                                             *)
C2_ConsistentUnderInterleaving ==
    (pc["ui"] = "ud_elapsed" /\ loc["ui"].op = "tick" /\ is_running)
    => anchored

(* remaining of a running timer as section 3 of the specification defines it *)
SpecRemaining == Max(0, duration - (accumulated + (now - anchor)))

(* C3: in the modes Timer, Countdown and Pomodoro, right after a tick at    *)
(* time now, remaining = max(0, duration - (accumulated + (now - anchor if  *)
(* running else 0))).  Stated for the running timer in the modes Timer and  *)
(* Countdown, with no set_duration since the start from rest.              *)
C3_RemainingInvariant ==
    (last = "tick" /\ is_running /\ mode \in {"timer", "countdown"} /\ ~disturbed)
    => remaining = SpecRemaining

(* C4: for every duration > 0 in a count-based mode, a tick at time t0      *)
(* that follows a start() issued at t0 in the Stopped state yields          *)
(* remaining = duration.                                                   *)
C4_TickAfterStart ==
    [][(/\ is_running /\ startedFrom = "Stopped" /\ mode \in CountModes
        /\ duration > 0 /\ now = anchor
        /\ last' = "tick")
       => remaining' = duration]_vars

C4_Witness ==
    /\ last = "tick" /\ is_running /\ startedFrom = "Stopped"
    /\ ~disturbed /\ mode \in CountModes /\ now = anchor /\ now > 0
    /\ remaining = duration

(* C5: while a count-based session is running and no reset, setDuration or  *)
(* switchMode intervenes, remaining never increases from one tick to the    *)
(* next.  Stated for the modes Timer and Countdown: with no set_duration    *)
(* since the start from rest, remaining holds the value computed by the     *)
(* latest tick of the session, or the duration when there was none.         *)
C5_MonotoneWhileRunning ==
    [][(/\ is_running /\ mode \in {"timer", "countdown"} /\ ~disturbed
        /\ startedFrom /= "Finished"
        /\ last' = "tick")
       => remaining' <= remaining]_vars

(* C6: after pause() of a running count-based timer, a tick leaves          *)
(* remaining unchanged (until start() is called again).                    *)
C6_PausedTicksKeepRemaining ==
    [][(phase = "Paused" /\ mode \in CountModes /\ last' = "tick")
       => remaining' = remaining]_vars

C6_Witness ==
    /\ last = "tick" /\ phase = "Paused" /\ mode \in CountModes /\ ~disturbed
    /\ startedFrom = "Stopped" /\ now > anchor + accumulated
    /\ accumulated > 0 /\ remaining = duration - accumulated

(* C7: pause() banks the time already run: when a count-based timer paused  *)
(* at remaining = r is started again at time t, the tick at t yields        *)
(* remaining = r.  Stated for the modes Timer and Countdown.                *)
C7_ResumeFromPausedValue ==
    [][(/\ is_running /\ startedFrom = "Paused" /\ ~disturbed
        /\ mode \in {"timer", "countdown"} /\ now = anchor
        /\ last' = "tick")
       => remaining' = remaining]_vars

(* C8: in a run that sweeps from duration (> warning > critical > 0) down   *)
(* to 0, the warning sound, the critical sound and the finish sound and     *)
(* notification are each dispatched exactly once, in that order, whatever   *)
(* the tick times.                                                         *)
C8_EffectsOnceInOrder ==
    (/\ phase = "Finished" /\ startedFrom = "Stopped" /\ ~disturbed
     /\ mode \in CountModes /\ duration > WarningTime)
    => effects = <<"warning", "critical", "finish", "notify">>

(* C9: a tick of a running count-based timer that computes remaining = 0    *)
(* stops the engine and increases completed_timers by exactly 1; a tick of  *)
(* a timer that is not running leaves completed_timers unchanged.          *)
C9_CompletionCountedOnce ==
    [][(mode \in CountModes /\ last' = "tick")
       => IF is_running /\ remaining' = 0
          THEN /\ ~is_running'
               /\ stats'.completed_timers = stats.completed_timers + 1
          ELSE stats'.completed_timers = stats.completed_timers]_vars

(* C10: the engine only makes the transitions Stopped -start-> Running,     *)
(* Running -pause-> Paused, Paused -start-> Running, Running -tick reaching *)
(* 0-> Finished and any -reset-> Stopped; Finished is terminal until        *)
(* reset(): a start() in Finished does not make the timer run again.       *)
C10_StateMachine ==
    [][/\ \/ phase' = phase
          \/ phase = "Stopped" /\ phase' = "Running"
          \/ phase = "Running" /\ phase' = "Paused"
          \/ phase = "Paused" /\ phase' = "Running"
          \/ phase = "Running" /\ phase' = "Finished"
          \/ phase' = "Stopped"
       /\ (phase = "Finished" /\ phase' /= "Stopped") => ~is_running'
      ]_vars

(* the engine fields the specification calls TimerState *)
TimerState == <<is_running, start_time, duration, elapsed, remaining>>

(* C11, as claimed: start() is a no-op when the timer is already running    *)
(* and pause() is a no-op when it is already paused.  Both are the          *)
(* Start/Pause control, toggle_timer.                                      *)
C11_StartPauseNoOp ==
    [][(Toggle /\ (is_running \/ phase = "Paused")) => UNCHANGED TimerState]_vars

(* C11, amended: the Start/Pause control is a toggle.  Issued while the     *)
(* timer is running it pauses: is_running becomes false and start_time,     *)
(* elapsed, remaining and duration are unchanged.  Issued while the timer   *)
(* is not running it starts it: is_running becomes true and elapsed,        *)
(* remaining and duration are unchanged.                                   *)
C11_ToggleFrame ==
    [][Toggle => /\ is_running' = ~is_running
                 /\ is_running => start_time' = start_time
                 /\ UNCHANGED <<duration, elapsed, remaining, mode>>]_vars

C11_Witness ==
    /\ phase = "Paused" /\ last = "op" /\ ~disturbed /\ ~is_running
    /\ mode \in CountModes /\ 0 < remaining /\ remaining < duration
    /\ start_time > 0 /\ now > start_time

(* C12: from any state and in any mode, reset() leaves is_running false,    *)
(* elapsed = 0 and remaining = duration, and changes neither duration nor   *)
(* mode.                                                                   *)
C12_ResetResult ==
    [][Reset => /\ ~is_running'
                /\ elapsed' = 0
                /\ remaining' = duration'
                /\ UNCHANGED <<duration, mode>>]_vars

C12_Witness ==
    /\ phase = "Stopped" /\ last = "op" /\ ~is_running /\ elapsed = 0
    /\ remaining = duration /\ mode \in CountModes
    /\ start_time > 0 /\ now > start_time /\ pending > 0

(* C13: set_duration(seconds) with a negative argument is rejected:         *)
(* duration, remaining, is_running and the other engine fields are          *)
(* unchanged.                                                              *)
C13_NegativeDurationRejected ==
    [][\A seconds \in CallSeconds :
          (seconds < 0 /\ SetDurationCall(seconds)) => UNCHANGED TimerState]_vars

(* C14: set_duration(seconds) with seconds >= 0 sets duration to seconds,   *)
(* and if the timer is not running remaining equals the new duration right  *)
(* after the call.                                                         *)
C14_SetDurationResult ==
    [][\A seconds \in CallSeconds :
          (seconds >= 0 /\ SetDurationCall(seconds))
          => /\ duration' = seconds
             /\ ~is_running => remaining' = seconds]_vars

C14_Witness ==
    /\ last = "op" /\ disturbed /\ phase = "Paused" /\ ~is_running
    /\ mode \in CountModes /\ duration = 60 /\ remaining = 60
    /\ now > start_time /\ start_time > 0

(* C15: switch_mode(mode) from any state leaves is_running false, and       *)
(* switch_mode("pomodoro") leaves duration = 1500 seconds.                 *)
C15_SwitchModeResult ==
    [][Switch => /\ ~is_running'
                 /\ mode' = "pomodoro" => duration' = PomodoroDuration]_vars

C15_Witness ==
    /\ last = "op" /\ mode = "pomodoro" /\ duration = PomodoroDuration
    /\ ~is_running /\ phase = "Stopped" /\ start_time > 0 /\ remaining < duration

(* C16: in Stopwatch mode elapsed never decreases from one update to the    *)
(* next while running, is constant while the stopwatch is not running, and  *)
(* the update at the instant of a start that follows a pause yields the     *)
(* paused elapsed value again, not 0.                                      *)
C16_StopwatchElapsed ==
    [][(mode = "stopwatch" /\ last' = "tick")
       => /\ elapsed' >= elapsed
          /\ ~is_running => elapsed' = elapsed
          /\ (is_running /\ startedFrom = "Paused" /\ now = anchor)
             => elapsed' = elapsed]_vars

C16_Witness ==
    /\ mode = "stopwatch" /\ last = "tick" /\ is_running
    /\ startedFrom = "Paused" /\ accumulated > 0
    /\ now > anchor /\ anchor > accumulated
    /\ elapsed = accumulated + (now - anchor)

(* the thread of the server has ended: nothing will answer from here on *)
ServerEnded == pc["srv"] \in {"done", "failed"}

(* C17: each remote command maps to one engine operation and is answered    *)
(* 200 OK: a request for /command/start, /command/reset or /command/Nmin    *)
(* that the server is done with has been answered 200 after the server      *)
(* applied toggle_timer, reset_timer or set_duration.                       *)
C17_CommandsServed ==
    (ServerEnded /\ request \in CommandPaths)
    => /\ response.status = "200"
       /\ response.applied = OperationOf(request)

(* C18: a request for /status is answered 200 OK with the time string the   *)
(* display shows for the current remaining.                                *)
C18_StatusServed ==
    (ServerEnded /\ request = StatusPath)
    => /\ response.status = "200"
       /\ response.applied = "none"
       /\ response.body = TimeString(remaining)

(* C19: a request for any path other than /status and the command paths is  *)
(* answered 404 Not Found, with no engine operation applied.               *)
C19_UnknownPathNotFound ==
    (ServerEnded /\ request \in Paths \ (CommandPaths \cup {StatusPath}))
    => /\ response.status = "404"
       /\ response.applied = "none"

(* C20: the time string shown for a count-based mode is MM:SS when          *)
(* remaining < 3600 and HH:MM:SS otherwise, with HH*3600 + MM*60 + SS =     *)
(* remaining, 0 <= MM < 60 in the HH:MM:SS form and 0 <= SS < 60, for       *)
(* every non-negative remaining.                                           *)
C20_TimeStringFields ==
    (last = "tick" /\ mode \in CountModes /\ remaining >= 0)
    => LET t == time_display
       IN  IF remaining < 3600
           THEN /\ Len(t) = 2
                /\ t[1] * 60 + t[2] = remaining
                /\ t[2] \in 0..59
           ELSE /\ Len(t) = 3
                /\ t[1] * 3600 + t[2] * 60 + t[3] = remaining
                /\ t[2] \in 0..59
                /\ t[3] \in 0..59

C20_Witness ==
    /\ last = "tick" /\ mode \in CountModes /\ remaining = 3725
    /\ time_display = <<1, 2, 5>>

(* C26: a failure of play_sound or show_notification at a threshold or at   *)
(* the finish never affects the engine: after the tick, is_running,         *)
(* remaining and the statistics have the values they have when the side     *)
(* effect succeeds.                                                        *)
C26_SideEffectFailureIsolated ==
    [][(is_running /\ mode \in CountModes /\ last' = "tick")
       => LET ok == UpdateDisplay([Cur EXCEPT !.sound_enabled = "on"], now).st
          IN  /\ is_running' = ok.is_running
              /\ remaining' = ok.remaining
              /\ stats' = ok.stats]_vars

(* the side effect e has been dispatched in the run that log belongs to *)
Dispatched(log, e) == \E i \in 1..Len(log) : log[i] = e

(* C28: thresholds are detected by downward crossing: when two consecutive  *)
(* ticks of a running countdown observe prev > threshold >= cur, the side   *)
(* effect of that threshold (warning at 120 s, critical at 60 s) is         *)
(* dispatched at the second tick.                                          *)
C28_ThresholdByCrossing ==
    [][(/\ is_running /\ mode \in CountModes /\ last \in {"tick", "ticked"}
        /\ Len(effects) + 2 <= MaxEffects
        /\ last' = "tick")
       => /\ (remaining > WarningTime /\ remaining' <= WarningTime)
             => Dispatched(effects', "warning")
          /\ (remaining > CriticalTime /\ remaining' <= CriticalTime)
             => Dispatched(effects', "critical")]_vars

(* C30: each start of a new session increases total_sessions, and each      *)
(* natural completion adds the duration run to total_time together with     *)
(* the increment of completed_timers.                                      *)
C30_StatisticsUpdated ==
    [][/\ (Toggle /\ ~is_running /\ phase \in {"Stopped", "Finished"}
           /\ mode \in CountModes)
          => stats'.total_sessions = stats.total_sessions + 1
       /\ (last' = "tick"
           /\ stats'.completed_timers = stats.completed_timers + 1)
          => stats'.total_time = stats.total_time + duration]_vars

(* C25: when a step of the start-up of the server fails, the rest of the    *)
(* application is unaffected: the failure changes no field of the engine,   *)
(* the scheduled updates stay scheduled and the user-interface thread goes  *)
(* on.                                                                     *)
C25_ServerFailureIsolated ==
    [][(pc["srv"] = "boot" /\ pc'["srv"] = "failed")
       => /\ UNCHANGED <<mode, is_running, start_time, duration, elapsed,
                         remaining, stats, stats_file, pending>>
          /\ pc'["ui"] = pc["ui"]]_vars

C25_Witness ==
    /\ pc["srv"] = "failed" /\ pc["ui"] = "idle" /\ pending > 0
    /\ last = "tick" /\ is_running /\ mode \in CountModes
    /\ remaining = duration /\ request \in CommandPaths

(* C21: saving the presets and loading them again gives the same mapping   *)
(* from names to presets, every field of every preset equal: whenever a     *)
(* save has written the presets file completely, load_presets on that file  *)
(* returns the presets held in memory.                                      *)
C21_PresetRoundTrip ==
    [][(presets_file' /= presets_file /\ presets_file'.kind = "document")
       => LET loaded == LoadPresets(presets_file')
          IN  /\ ~loaded.raised
              /\ DOMAIN loaded.value = DOMAIN presets'
              /\ \A n \in DOMAIN presets' :
                    \A f \in PresetFields :
                       loaded.value[n][f] = presets'[n][f]]_vars

C21_Witness ==
    /\ Running
    /\ "b" \in DOMAIN presets
    /\ presets["b"].warning_time /= PresetWarningTime
    /\ presets["b"].sound_enabled = FALSE
    /\ presets_file = Document(DumpPresets(presets))
    /\ LoadPresets(presets_file).value = presets

(* C22: a save is all-or-nothing: whenever a step changes the presets file  *)
(* or the statistics file, the file holds a complete document afterwards    *)
(* (a failed write leaves the previous document).                           *)
C22_SaveAllOrNothing ==
    [][/\ (presets_file.kind = "document" /\ presets_file' /= presets_file)
          => presets_file'.kind = "document"
       /\ (stats_file.kind = "document" /\ stats_file' /= stats_file)
          => stats_file'.kind = "document"]_vars

(* the stored statistics over the defaults of lines 93-98 *)
MergedStats(file) ==
    [k \in DOMAIN DefaultStats |-> Get(file.doc, k, DefaultStats[k])]

(* C23: a load merges the stored document over the defaults: after a start  *)
(* that has loaded the files, the statistics have every default key, with   *)
(* the stored value where the document has the key and the default where    *)
(* it has not, and every loaded preset has every field.                    *)
C23_LoadMergesDefaults ==
    [][(pc["ui"] = "init" /\ pc'["ui"] = "idle")
       => /\ stats' = MergedStats(stats_file)
          /\ \A n \in DOMAIN presets' : DOMAIN presets'[n] = PresetFields]_vars

(* C24: a malformed presets or statistics file is not fatal: the start      *)
(* falls back to the defaults and reaches the state in which the engine     *)
(* and the update loop run.                                                 *)
C24_MalformedNotFatal ==
    [][(/\ pc["ui"] = "init"
        /\ pc'["ui"] /= "init"
        /\ "truncated" \in {presets_file.kind, stats_file.kind})
       => /\ pc'["ui"] = "idle"
          /\ pending' > 0
          /\ presets_file.kind = "truncated" => presets' = Empty
          /\ stats_file.kind = "truncated" => stats' = DefaultStats]_vars

(* C27: the statistics counters never decrease while the application runs,  *)
(* whatever operation is applied (the code has no operation that resets     *)
(* the statistics).                                                         *)
C27_CountersMonotone ==
    [][(Running /\ pc'["ui"] = "idle")
       => \A k \in {"total_sessions", "total_time", "completed_timers"} :
             (k \in DOMAIN stats /\ k \in DOMAIN stats')
                => stats'[k] >= stats[k]]_vars

(* the side effects of a full countdown, each dispatched once *)
AllEffects == <<"warning", "critical", "finish", "notify">>

(* C29: reset re-arms the thresholds: when the run ended by the latest      *)
(* reset had dispatched the warning, the critical and the finish effects,   *)
(* the countdown started after that reset and run to its end without a      *)
(* pause has dispatched each of them exactly once again.                    *)
C29_ResetRearms ==
    (/\ phase = "Finished"
     /\ ~is_running
     /\ startedFrom = "Stopped"
     /\ ~disturbed
     /\ previous = AllEffects)
    => effects = AllEffects

(* C31: in every reachable state of a count-based mode the thresholds are   *)
(* ordered: 0 <= critical threshold <= warning threshold <= duration.       *)
C31_ThresholdsOrdered ==
    mode \in CountModes
    => /\ 0 <= CriticalTime
       /\ CriticalTime <= WarningTime
       /\ WarningTime <= duration

(* C33: the update loop never stops: every invocation of update_display     *)
(* completes and schedules the next one, so a tick never leaves fewer       *)
(* updates scheduled than there were before it.                            *)
C33_UpdateLoopNeverStops ==
    [][last' = "tick" => pending' >= pending]_vars

(* C35: there is a single update chain: in every reachable state exactly    *)
(* one invocation of update_display is scheduled.                          *)
C35_SingleUpdateChain == pending = 1

(* C36: in every reachable state of a count-based mode,                     *)
(* 0 <= remaining <= duration.                                              *)
C36_RemainingWithinDuration ==
    mode \in CountModes => (0 <= remaining /\ remaining <= duration)

(* C37: right after switch_mode("pomodoro"), from any state,                *)
(* remaining = duration = 1500.                                             *)
C37_PomodoroShowsFullDuration ==
    [][SwitchTo("pomodoro")
       => (duration' = PomodoroDuration /\ remaining' = PomodoroDuration)]_vars

(* C32: a tick is a recomputation: it changes neither mode nor duration     *)
(* nor the anchor, it changes is_running only by stopping a running timer   *)
(* whose remaining has reached 0, it changes remaining only in a count-     *)
(* based mode and elapsed only in stopwatch mode, and a tick while the      *)
(* timer is stopped or paused leaves remaining, elapsed and the statistics  *)
(* unchanged and dispatches no sound or notification.                      *)
C32_TickFrame ==
    [][last' = "tick"
       => /\ UNCHANGED <<mode, duration, start_time>>
          /\ is_running' /= is_running => (is_running /\ remaining' = 0)
          /\ remaining' /= remaining => mode \in CountModes
          /\ elapsed' /= elapsed => mode = "stopwatch"
          /\ ~is_running
             => UNCHANGED <<remaining, elapsed, stats, stats_file, effects>>
      ]_vars

C32_Witness ==
    /\ last = "tick" /\ phase = "Stopped" /\ ~is_running
    /\ mode \in CountModes /\ remaining = duration
    /\ start_time > 0 /\ now > start_time /\ stats.completed_timers = 1

(* C34: switch_mode with an unrecognized mode falls back to a safe default: *)
(* afterwards mode is one of clock, timer, countdown, stopwatch, pomodoro    *)
(* and the timer is not running.                                            *)
C34_UnknownModeFallsBack ==
    [][\A m \in CallModes \ Modes :
          SwitchTo(m) => (mode' \in Modes /\ ~is_running')]_vars

(* set_duration or apply_preset issued while a count-based timer runs *)
DurationWhileRunning ==
    /\ is_running
    /\ mode \in CountModes
    /\ (SetDurationCall(CriticalTime) \/ ApplyPreset)

PresetsPersisted(file, ps) ==
    /\ file.kind = "document"
    /\ DOMAIN file.doc = DOMAIN ps
    /\ \A n \in DOMAIN ps :
          /\ DOMAIN file.doc[n] = PresetFields
          /\ \A f \in PresetFields : file.doc[n][f] = ps[n][f]

(* the statistics file holds the statistics as they are in memory *)
StatsPersisted(file, st) ==
    /\ file.kind = "document"
    /\ DOMAIN file.doc = DOMAIN st
    /\ \A k \in DOMAIN st : file.doc[k] = st[k]

(* C39: the persisted documents track the state in memory: after every     *)
(* completed save_preset and import_settings the presets file holds the     *)
(* presets of memory, and after every completed import_settings and every   *)
(* counted completion of a timer the statistics file holds the statistics   *)
(* of memory (when no write fails).                                         *)
C39_PersistedTracksMemory ==
    [][~WriteRaises
       => /\ (SavePreset /\ sound_enabled /= "unset")
             => PresetsPersisted(presets_file', presets')
          /\ (ImportSettings /\ sound_enabled /= "unset")
             => /\ PresetsPersisted(presets_file', presets')
                /\ StatsPersisted(stats_file', stats')
          /\ (last' = "tick" /\ stats' /= stats)
             => StatsPersisted(stats_file', stats')]_vars

C39_Witness ==
    /\ last = "tick" /\ phase = "Finished" /\ disk = "ok"
    /\ Completed(stats) = 1
    /\ StatsPersisted(stats_file, stats)
    /\ "a" \in DOMAIN presets
    /\ PresetsPersisted(presets_file, presets)
    /\ presets["a"].color_theme = "dark"

(* ---------- the configuration of the environment managers ------------- *)
(* venv_setup.py and conda_setup.py each keep their settings in a JSON      *)
(* file and read it once, when the module is loaded: config = load_config() *)

Scripts == {"venv", "conda"}

(* DEFAULT_CONFIG, venv_setup.py lines 165-173 and conda_setup.py lines     *)
(* 180-186; the interpreter's own version is written "sys.version"          *)
DEFAULT_CONFIG(sc) ==
    IF sc = "venv"
    THEN [python_version |-> "sys.version", show_animations |-> TRUE,
          confirm_deletions |-> TRUE, venv_location |-> "current",
          custom_venv_path |-> "~/.venvs", auto_activate |-> TRUE,
          theme |-> "default"]
    ELSE [python_version |-> "3.9", show_animations |-> TRUE,
          confirm_deletions |-> TRUE, export_format |-> "yaml",
          theme |-> "default"]

(* the values a settings menu has stored in place of the defaults *)
StoredConfig ==
    [python_version |-> "3.11", show_animations |-> FALSE,
     confirm_deletions |-> FALSE, venv_location |-> "custom",
     custom_venv_path |-> "/opt/venvs", auto_activate |-> FALSE,
     export_format |-> "json", theme |-> "dark"]

(* a file that exists and cannot be opened for reading *)
Unreadable == [kind |-> "unreadable", doc |-> Empty]

(* a file holding valid JSON that is not an object, such as [] *)
NotAnObject == [kind |-> "array", doc |-> Empty]

(* the states CONFIG_FILE may be in when the script is started: missing,    *)
(* unreadable, cut short, an array, or an object with some of the keys      *)
ConfigFiles(sc) ==
    {Absent, Unreadable, Truncated, NotAnObject}
    \cup {Document([k \in keys |-> StoredConfig[k]]) :
             keys \in SUBSET DOMAIN DEFAULT_CONFIG(sc)}

(* {**DEFAULT_CONFIG, **loaded_config} *)
Merged(defaults, loaded) ==
    [k \in DOMAIN defaults \cup DOMAIN loaded |->
        IF k \in DOMAIN loaded THEN loaded[k] ELSE defaults[k]]

(* the result of a call of load_config *)
ConfigReturned(c, file) == [raised |-> FALSE, value |-> c, file |-> file]
ConfigRaised(file) == [raised |-> TRUE, value |-> Empty, file |-> file]

(* save_config of venv_setup.py, lines 195-205: the IOError of a failed     *)
(* write is caught                                                          *)
SaveConfig(c) == Written(c)

(* load_config of venv_setup.py, lines 175-193: the handler at line 190     *)
(* names json.JSONDecodeError and IOError only, so the TypeError of the     *)
(* merge at line 182 leaves the function                                    *)
VenvLoadConfig(file) ==
    LET defaults == DEFAULT_CONFIG("venv")
    IN  CASE file.kind = "absent" ->
                 ConfigReturned(defaults, SaveConfig(defaults))
          [] file.kind = "unreadable" -> ConfigReturned(defaults, file)
          [] file.kind = "truncated" -> ConfigReturned(defaults, file)
          [] file.kind = "array" -> ConfigRaised(file)
          [] OTHER -> ConfigReturned(Merged(defaults, file.doc), file)

(* load_config of conda_setup.py, lines 188-196: every Exception is caught  *)
(* and no file is written                                                   *)
CondaLoadConfig(file) ==
    LET defaults == DEFAULT_CONFIG("conda")
    IN  IF file.kind = "document"
        THEN ConfigReturned(Merged(defaults, file.doc), file)
        ELSE ConfigReturned(defaults, file)

InitConfig ==
    /\ Constructed
    /\ script \in Scripts
    /\ config_file \in ConfigFiles(script)
    /\ config = Empty
    /\ outcome = "unloaded"

(* config = load_config(), at the import of the module *)
Loaded(r) ==
    /\ outcome = "unloaded"
    /\ outcome' = IF r.raised THEN "raised" ELSE "returned"
    /\ config' = r.value
    /\ config_file' = r.file
    /\ UNCHANGED <<script, mode, is_running, start_time, duration, elapsed,
                   remaining, sound_enabled, stats, stats_file, pending, now,
                   hist, anchored, threads, request, response, time_display,
                   presets, current_theme, presets_file, disk, previous>>

VenvImport == script = "venv" /\ Loaded(VenvLoadConfig(config_file))

CondaImport == script = "conda" /\ Loaded(CondaLoadConfig(config_file))

ConfigNext == VenvImport \/ CondaImport \/ DiskFills

SpecConfig == InitConfig /\ [][ConfigNext]_vars

(* C40: in both environment managers load_config() never raises and, for    *)
(* every state of the config file (missing, unreadable, malformed, valid    *)
(* JSON that is not an object, an object with some of the keys), returns a  *)
(* configuration with every key of DEFAULT_CONFIG, the stored value where   *)
(* the file has one and the default where it has none.                      *)
C40_LoadConfigTotal ==
    outcome /= "unloaded"
       => /\ outcome = "returned"
          /\ \A k \in DOMAIN DEFAULT_CONFIG(script) :
                /\ k \in DOMAIN config
                /\ config[k] = IF /\ config_file.kind = "document"
                                  /\ k \in DOMAIN config_file.doc
                               THEN config_file.doc[k]
                               ELSE DEFAULT_CONFIG(script)[k]

====
